---- MODULE Spec2Model ----
(***************************************************************************)
(* NiftyShopStrategy (src/strategy/nifty_shop.py): the ranking by          *)
(* deviation below the 20-day moving average, the sell-on-profit pass, the *)
(* buy-new / average-down pass and execute_strategy, which runs them in    *)
(* sequence.                                                               *)
(*                                                                         *)
(* Prices are integers (rupees).  Percentages are kept exact: a ratio is   *)
(* compared by cross-multiplication, and the two-decimal change_pct of the *)
(* averaging pass is kept in hundredths of a percent.  A value the code    *)
(* holds as Optional is a sequence of length 0 (None) or 1.                *)
(***************************************************************************)
EXTENDS Integers, Sequences, FiniteSets, TLC

\* ------------------------------------------------------------------ bounds

\* Size of the universe self.symbols; a symbol is its index in alphabetical
\* order.
NSym == 2
\* Largest number of raw holdings the broker returns.
MaxHold == 2
\* Number of execute_strategy calls made on one strategy object.
MaxRuns == 2
\* Number of symbols whose quote changes between the first and the second
\* price fetch of one handler.
MaxDrift == 1
\* Largest number of POST requests one ZerodhaClient sends.
MaxPosts == 10

\* ------------------------------------------------------- program constants

daily_trade_limit == 1
ProfitThreshold == 5
AveragingThreshold == -3
Window == 20
TopN == 5

\* ------------------------------------------------------------ environment

Symbols == 1..NSym
\* self.symbols, the order in which the ranking iterates the universe.
symbols == [i \in 1..NSym |-> i]

\* Closes the market can show; 100 is the price the holdings were bought at
\* and the level of the older candles.
BasePrice == 100
Prices == {96, 100, 105, 106}
NoPrice == <<>>
Quotes == {NoPrice} \cup {<<p>> : p \in Prices}
QuoteMaps == [Symbols -> Quotes]

\* The quote maps a second fetch can see after `q` was seen by the first: for
\* at most MaxDrift symbols the quote is another one, or is gone.
Drift(q) ==
    {r \in [DOMAIN q -> Quotes \cup {q[s] : s \in DOMAIN q}] :
        Cardinality({s \in DOMAIN q : r[s] # q[s]}) <= MaxDrift}

\* A finer market, for the cases the round prices above do not show.  Bought
\* at 100, a close of 97 is a fall of exactly 3%; bought at 267, a close of
\* 259 is a fall of 2.996...%, which two decimals round to 3.00%.
FineEntry == 267
FinePrices == {97, 106, 259}
FineQuotes == {NoPrice} \cup {<<p>> : p \in FinePrices}

\* ------------------------------------------------------------- sequences

RECURSIVE SeqSum(_)
SeqSum(s) == IF s = <<>> THEN 0 ELSE Head(s) + SeqSum(Tail(s))

Range(s) == {s[i] : i \in DOMAIN s}

Min(a, b) == IF a <= b THEN a ELSE b

\* The sequences without repetition over S of length at most n.
RECURSIVE DistinctSeqs(_, _)
DistinctSeqs(S, n) ==
    IF n = 0 THEN {<<>>}
    ELSE LET shorter == DistinctSeqs(S, n - 1)
         IN shorter \cup
            UNION {{Append(t, x) : x \in S \ Range(t)} :
                       t \in {u \in shorter : Len(u) = n - 1}}

\* ---------------------------------------------------------------- state

VARIABLES
    instrument_tokens,  \* self.instrument_tokens, as the set of mapped symbols
    mock_trades,        \* self.mock_trades
    broker,             \* the raw holdings the broker's API returns
    quote,              \* the latest close the historical API shows, per symbol
    depth,              \* the number of candles a 60-day window holds, per symbol
    pc,                 \* the position inside execute_strategy
    runs,               \* execute_strategy calls started so far
    stocks_sold,        \* execute_strategy's local, the result of initiate_sell
    eligible_stocks,    \* execute_strategy's local, the result of the ranking
    sell,               \* what the last initiate_sell saw and decided
    rank,               \* what the last ranking saw and decided
    buy,                \* what the last initiate_buy saw and decided
    orders,             \* the orders placed so far in this run, in order
    log,                \* the gateway calls of this run, in order
    config_file,        \* config/strategy_config.json: absent, or its content
    config,             \* what the last ConfigManager call returned, if any
    client,             \* the ZerodhaClient: token, header, cookie, requests
    main                \* the last call of main: its arguments and exit code

vars == <<instrument_tokens, mock_trades, broker, quote, depth, pc, runs,
          stocks_sold, eligible_stocks, sell, rank, buy, orders, log,
          config_file, config, client, main>>

Event(phase, call) == [phase |-> phase, call |-> call]

\* ------------------------------------------------------- holdings gateway

\* The three ways _get_current_holdings ends.
HoldingsOutcomes == {"ok", "api_error", "exception"}

\* The conversion of the broker's records: those with quantity > 0, in order.
RECURSIVE ConvertHoldings(_)
ConvertHoldings(raw) ==
    IF raw = <<>> THEN <<>>
    ELSE LET h == Head(raw)
             rest == ConvertHoldings(Tail(raw))
         IN IF h.quantity > 0
            THEN <<[tradingSymbol |-> h.tradingsymbol,
                    entry |-> h.average_price,
                    quantity |-> h.quantity]>> \o rest
            ELSE rest

GetCurrentHoldings(outcome, raw, trades) ==
    CASE outcome = "ok" -> ConvertHoldings(raw)
      [] outcome = "api_error" -> <<>>
      [] outcome = "exception" -> trades

\* ----------------------------------------------------------- market data

\* The candles of a window of n trading days whose latest close is `last`,
\* as the API lists them (ascending by date).  A symbol quoted at 0 has
\* closed at 0 on every day of the window.
Candles(n, last) ==
    [i \in 1..n |->
        [date |-> i,
         close |-> IF i = n \/ last = 0 THEN last ELSE BasePrice]]

\* _get_historical_data: None without a token, on an API failure or on an
\* empty candle list; otherwise the frame, one row per candle.
GetHistoricalData(tokens, q, d, s) ==
    IF s \notin tokens \/ q[s] = NoPrice \/ d[s] = 0
    THEN <<>>
    ELSE <<Candles(d[s], q[s][1])>>

\* _get_cmp: the last close of a short window, or None.
GetCmp(tokens, q, s) ==
    IF s \in tokens THEN q[s] ELSE NoPrice

\* ------------------------------------------------------------- sell phase

\* profit_pct = (current_price - entry_price) / entry_price * 100, kept as the
\* ratio num / den with den = entry_price > 0.
ProfitNum(h, cp) == (cp - h.entry) * 100

\* A variant of the comparison that also sells at exactly the threshold.
AtOrAboveProfitThreshold(h, cp) == ProfitNum(h, cp) >= ProfitThreshold * h.entry

\* profit_pct > 5.0
AboveProfitThreshold(h, cp) == ProfitNum(h, cp) > ProfitThreshold * h.entry

\* The analysis loop of initiate_sell: the (holding, profit_pct) pairs it
\* appends to profitable_holdings, in holdings order.  A holding without a
\* price is skipped; an entry price of 0 raises ZeroDivisionError, which the
\* loop's except clause turns into a skip.
RECURSIVE ProfitableHoldings(_, _, _)
ProfitableHoldings(hs, tokens, q) ==
    IF hs = <<>> THEN <<>>
    ELSE LET h == Head(hs)
             cp == GetCmp(tokens, q, h.tradingSymbol)
             rest == ProfitableHoldings(Tail(hs), tokens, q)
         IN IF cp = NoPrice THEN rest
            ELSE IF h.entry = 0 THEN rest
            ELSE IF AboveProfitThreshold(h, cp[1])
                 THEN <<[holding |-> h, num |-> ProfitNum(h, cp[1]),
                         den |-> h.entry]>> \o rest
                 ELSE rest

\* A variant of the sort key without reverse=True.
ProfitLeq(a, b) == a.num * b.den <= b.num * a.den

\* a's profit_pct is at least b's.
ProfitGeq(a, b) == a.num * b.den >= b.num * a.den

\* x put behind the last entry whose profit_pct is at least its own.
RECURSIVE InsertByProfit(_, _)
InsertByProfit(x, s) ==
    IF s = <<>> THEN <<x>>
    ELSE IF ProfitGeq(s[Len(s)], x) THEN Append(s, x)
    ELSE Append(InsertByProfit(x, SubSeq(s, 1, Len(s) - 1)), s[Len(s)])

\* profitable_holdings.sort(key=profit_pct, reverse=True), a stable sort.
RECURSIVE SortByProfit(_)
SortByProfit(s) ==
    IF s = <<>> THEN <<>>
    ELSE InsertByProfit(s[Len(s)], SortByProfit(SubSeq(s, 1, Len(s) - 1)))

\* A variant of _place_sell_order without its price check: a missing price
\* is taken as 0 and the order is placed.
PlaceSellOrderAtZero(h, tokens, q) ==
    LET cp == GetCmp(tokens, q, h.tradingSymbol)
    IN <<[action |-> "SELL", symbol |-> h.tradingSymbol,
          price |-> IF cp = NoPrice THEN 0 ELSE cp[1]]>>

\* _place_sell_order: the order it places, or none when the price is gone.
PlaceSellOrder(h, tokens, q) ==
    LET cp == GetCmp(tokens, q, h.tradingSymbol)
    IN IF cp = NoPrice THEN <<>>
       ELSE <<[action |-> "SELL", symbol |-> h.tradingSymbol, price |-> cp[1]]>>

\* The order loop of initiate_sell over the sorted profitable holdings.
RECURSIVE PlaceSellOrders(_, _, _)
PlaceSellOrders(ps, tokens, q) ==
    IF ps = <<>> THEN <<>>
    ELSE PlaceSellOrder(Head(ps).holding, tokens, q)
         \o PlaceSellOrders(Tail(ps), tokens, q)

\* A variant of the counter that counts every attempt.
StocksSoldCountsAttempts(ps, tokens, q) == Len(ps)

\* stocks_sold: one more for every _place_sell_order that returns True.
RECURSIVE StocksSold(_, _, _)
StocksSold(ps, tokens, q) ==
    IF ps = <<>> THEN 0
    ELSE (IF PlaceSellOrder(Head(ps).holding, tokens, q) # <<>> THEN 1 ELSE 0)
         + StocksSold(Tail(ps), tokens, q)

\* The holding records initiate_sell can read: it takes holding['quantity']
\* before its try block, so a record without that key raises KeyError.
SellRaises(hs) == \E i \in DOMAIN hs : "quantity" \notin DOMAIN hs[i]

\* The gateway calls of the order loop: a price fetch per profitable holding,
\* followed by the order when it is placed.
RECURSIVE SellOrderEvents(_, _, _)
SellOrderEvents(ps, tokens, q) ==
    IF ps = <<>> THEN <<>>
    ELSE <<Event("sell", "cmp")>>
         \o [i \in 1..Len(PlaceSellOrder(Head(ps).holding, tokens, q)) |->
                Event("sell", "order")]
         \o SellOrderEvents(Tail(ps), tokens, q)

\* ---------------------------------------------------------- ranking phase

\* df.sort_index(): the rows in ascending date order.
RECURSIVE SortIndex(_)
SortIndex(df) ==
    IF df = <<>> THEN <<>>
    ELSE LET first == CHOOSE i \in DOMAIN df :
                          \A j \in DOMAIN df : df[i].date <= df[j].date
             others == [k \in 1..(Len(df) - 1) |->
                          IF k < first THEN df[k] ELSE df[k + 1]]
         IN <<df[first]>> \o SortIndex(others)

\* A variant of the rolling mean with min_periods=1: the mean of the rows
\* there are, scaled to a sum of 20.
RollingSumMinPeriods1(df) ==
    LET n == Min(Window, Len(df))
    IN <<(SeqSum([i \in 1..n |-> df[Len(df) - n + i].close]) * Window) \div n>>

\* df['Close'].rolling(window=20).mean().iloc[-1], times 20: the sum of the
\* last 20 closes, or None (NaN) when the frame has fewer than 20 rows.
RollingSum(df) ==
    IF Len(df) < Window THEN <<>>
    ELSE <<SeqSum([i \in 1..Window |-> df[Len(df) - Window + i].close])>>

\* A variant of the comparison that also takes a close equal to the average.
AtOrBelowAverage(latest_close, sum20) == Window * latest_close <= sum20

\* latest_close < latest_dma
BelowAverage(latest_close, sum20) == Window * latest_close < sum20

\* One pass of the ranking loop for symbol s: the result tuple it appends,
\* or nothing.  sum20 is 20 * latest_dma.
RankSymbol(s, fetched) ==
    IF fetched = <<>> THEN <<>>
    ELSE LET df == SortIndex(fetched[1])
             latest_close == df[Len(df)].close
             latest_dma == RollingSum(df)
         IN IF latest_dma = <<>> THEN <<>>
            ELSE IF BelowAverage(latest_close, latest_dma[1])
                 THEN <<[symbol |-> s, latest_close |-> latest_close,
                         sum20 |-> latest_dma[1]]>>
                 ELSE <<>>

\* A variant of the loop with the try around it instead of inside it, and a
\* division that raises: a symbol whose average is 0 ends the loop.
RECURSIVE RankResultsUntilZeroAverage(_, _)
RankResultsUntilZeroAverage(syms, hist) ==
    IF syms = <<>> THEN <<>>
    ELSE LET fetched == hist[Head(syms)]
         IN IF fetched # <<>> /\ RollingSum(SortIndex(fetched[1])) = <<0>>
            THEN <<>>
            ELSE RankSymbol(Head(syms), fetched)
                 \o RankResultsUntilZeroAverage(Tail(syms), hist)

\* The loop over self.symbols; hist[s] is what _get_historical_data returned.
RECURSIVE RankResults(_, _)
RankResults(syms, hist) ==
    IF syms = <<>> THEN <<>>
    ELSE RankSymbol(Head(syms), hist[Head(syms)])
         \o RankResults(Tail(syms), hist)

\* A variant of the sort key for sorted(..., reverse=True).
DeviationGeq(a, b) == a.latest_close * b.sum20 >= b.latest_close * a.sum20

\* deviation = (latest_close - latest_dma) / latest_dma * 100 of a is at most
\* that of b (both averages are positive).
DeviationLeq(a, b) == a.latest_close * b.sum20 <= b.latest_close * a.sum20

RECURSIVE InsertByDeviation(_, _)
InsertByDeviation(x, s) ==
    IF s = <<>> THEN <<x>>
    ELSE IF DeviationLeq(s[Len(s)], x) THEN Append(s, x)
    ELSE Append(InsertByDeviation(x, SubSeq(s, 1, Len(s) - 1)), s[Len(s)])

\* A variant that leaves the results in the order they were appended.
Unsorted(s) == s

\* sorted(results, key=deviation), a stable sort.
RECURSIVE SortByDeviation(_)
SortByDeviation(s) ==
    IF s = <<>> THEN <<>>
    ELSE InsertByDeviation(s[Len(s)],
                           SortByDeviation(SubSeq(s, 1, Len(s) - 1)))

\* [symbol for symbol, _, _, _ in sorted_results[:5]]
TopSymbols(sorted_results) ==
    [i \in 1..Min(TopN, Len(sorted_results)) |-> sorted_results[i].symbol]

\* -------------------------------------------------------------- buy phase

\* The stock is in current_holdings (the inner loop over the holdings).
IsPartOfHolding(stock, hs) == \E i \in DOMAIN hs : hs[i].tradingSymbol = stock

\* A variant of the loop without the limit check.
NoDailyLimit(new_stocks_bought) == TRUE

\* new_stocks_bought < self.daily_trade_limit
WithinDailyLimit(new_stocks_bought) == new_stocks_bought < daily_trade_limit

\* _place_new_trade: the mock trade it appends to self.mock_trades, or none
\* when the price is not available.
PlaceNewTrade(stock, tokens, q) ==
    LET cp == GetCmp(tokens, q, stock)
    IN IF cp = NoPrice THEN <<>>
       ELSE <<[tradingSymbol |-> stock, entry |-> cp[1]]>>

NoNewBuys == [trades |-> <<>>, failed |-> <<>>, skipped |-> <<>>,
              events |-> <<>>]

\* A variant of the loop that ends at the first order that fails.
RECURSIVE NewPositionLoopUntilFailure(_, _, _, _, _, _)
NewPositionLoopUntilFailure(stock_list, current_holdings, aliased, tokens, q, acc) ==
    IF stock_list = <<>> THEN acc
    ELSE LET stock == Head(stock_list)
             cur == IF aliased THEN current_holdings \o acc.trades
                    ELSE current_holdings
             trade == PlaceNewTrade(stock, tokens, q)
             rest == Tail(stock_list)
         IN IF IsPartOfHolding(stock, cur)
            THEN NewPositionLoopUntilFailure(rest, current_holdings, aliased,
                                             tokens, q, acc)
            ELSE IF ~WithinDailyLimit(Len(acc.trades))
            THEN NewPositionLoopUntilFailure(
                     rest, current_holdings, aliased, tokens, q,
                     [acc EXCEPT !.skipped = Append(@, stock)])
            ELSE IF trade = <<>>
            THEN [acc EXCEPT !.failed = Append(@, stock),
                             !.events = Append(@, Event("buy", "cmp"))]
            ELSE NewPositionLoopUntilFailure(
                     rest, current_holdings, aliased, tokens, q,
                     [acc EXCEPT !.trades = @ \o trade,
                                 !.events = @ \o <<Event("buy", "cmp"),
                                                   Event("buy", "order")>>])

\* The loop of initiate_buy over stock_list.  acc.trades are the mock trades
\* placed so far (new_stocks_bought is their number), acc.failed the stocks
\* whose order failed, acc.skipped those beyond the daily limit, acc.events
\* the gateway calls.  When the
\* holdings are the fallback, current_holdings is the list self.mock_trades
\* itself, so a trade placed by the loop is seen by its later passes.
RECURSIVE NewPositionLoop(_, _, _, _, _, _)
NewPositionLoop(stock_list, current_holdings, aliased, tokens, q, acc) ==
    IF stock_list = <<>> THEN acc
    ELSE LET stock == Head(stock_list)
             cur == IF aliased THEN current_holdings \o acc.trades
                    ELSE current_holdings
             trade == PlaceNewTrade(stock, tokens, q)
             next ==
                 IF IsPartOfHolding(stock, cur) THEN acc
                 ELSE IF ~WithinDailyLimit(Len(acc.trades))
                      THEN [acc EXCEPT !.skipped = Append(@, stock)]
                 ELSE IF trade = <<>>
                      THEN [acc EXCEPT !.failed = Append(@, stock),
                                       !.events = Append(@, Event("buy", "cmp"))]
                 ELSE [acc EXCEPT !.trades = @ \o trade,
                                  !.events = @ \o <<Event("buy", "cmp"),
                                                    Event("buy", "order")>>]
         IN NewPositionLoop(Tail(stock_list), current_holdings, aliased,
                            tokens, q, next)

\* n / d rounded to the nearest integer, a tie to the even one (d > 0).
RoundDiv(n, d) ==
    LET f == n \div d
        r == n - f * d
    IN IF 2 * r < d THEN f
       ELSE IF 2 * r > d THEN f + 1
       ELSE IF f % 2 = 0 THEN f ELSE f + 1

\* round((cmp - LastBuyPrice) * 100 / LastBuyPrice, 2), in hundredths of a
\* percent; 0.0 when LastBuyPrice is 0.
ChangePct(cmp, last_buy_price) ==
    IF last_buy_price # 0
    THEN RoundDiv((cmp - last_buy_price) * 10000, last_buy_price)
    ELSE 0

\* change_pct <= -3
EligibleForAveraging(change_pct) == change_pct <= AveragingThreshold * 100

\* df.loc[df.groupby(['Symbol'])["Date"].idxmax()]: one row per symbol, the
\* one with the latest createTimestamp, the rows in ascending symbol order.
\* The timestamps of a holdings list grow with the position in the list.
LastBuyIndex(hs, s) ==
    CHOOSE i \in DOMAIN hs :
        /\ hs[i].tradingSymbol = s
        /\ \A j \in DOMAIN hs : hs[j].tradingSymbol = s => j <= i

RECURSIVE LastBuys(_, _)
LastBuys(hs, s) ==
    IF s > NSym THEN <<>>
    ELSE (IF IsPartOfHolding(s, hs)
          THEN <<[Symbol |-> s, LastBuyPrice |-> hs[LastBuyIndex(hs, s)].entry]>>
          ELSE <<>>)
         \o LastBuys(hs, s + 1)

\* The loop over the rows of df: the rows that get a ChangePct, which are
\* those whose current price is available.
RECURSIVE AveragingRows(_, _, _)
AveragingRows(rows, tokens, q) ==
    IF rows = <<>> THEN <<>>
    ELSE LET row == Head(rows)
             cmp == GetCmp(tokens, q, row.Symbol)
             rest == AveragingRows(Tail(rows), tokens, q)
         IN IF cmp = NoPrice THEN rest
            ELSE <<[Symbol |-> row.Symbol,
                    LastBuyPrice |-> row.LastBuyPrice,
                    ChangePct |-> ChangePct(cmp[1], row.LastBuyPrice)]>>
                 \o rest

\* df[df['ChangePct'] <= -3]
RECURSIVE FilterEligible(_)
FilterEligible(rows) ==
    IF rows = <<>> THEN <<>>
    ELSE (IF EligibleForAveraging(Head(rows).ChangePct)
          THEN <<Head(rows)>> ELSE <<>>)
         \o FilterEligible(Tail(rows))

RECURSIVE InsertByChange(_, _)
InsertByChange(x, s) ==
    IF s = <<>> THEN <<x>>
    ELSE IF s[Len(s)].ChangePct <= x.ChangePct THEN Append(s, x)
    ELSE Append(InsertByChange(x, SubSeq(s, 1, Len(s) - 1)), s[Len(s)])

\* df.sort_values(['ChangePct'], ascending=True); on a frame this small the
\* sort keeps the order of equal keys.
RECURSIVE SortByChange(_)
SortByChange(s) ==
    IF s = <<>> THEN <<>>
    ELSE InsertByChange(s[Len(s)], SortByChange(SubSeq(s, 1, Len(s) - 1)))

\* A variant without the guard on LastBuyPrice: the division raises for a
\* row bought at 0 and the except clause ends the branch.
AveragingSymbolUnguarded(hs, tokens, q) ==
    LET rows == AveragingRows(LastBuys(hs, 1), tokens, q)
        eligible == FilterEligible(rows)
    IN IF \E i \in DOMAIN rows : rows[i].LastBuyPrice = 0 THEN <<>>
       ELSE IF eligible = <<>> THEN <<>>
       ELSE <<SortByChange(eligible)[1].Symbol>>

\* The averaging branch up to its choice: df['Symbol'].iloc[0] of the sorted
\* eligible rows, or none when no row is eligible.
AveragingSymbol(hs, tokens, q) ==
    LET eligible == FilterEligible(AveragingRows(LastBuys(hs, 1), tokens, q))
    IN IF eligible = <<>> THEN <<>>
       ELSE <<SortByChange(eligible)[1].Symbol>>

\* A variant of initiate_buy that falls through to the averaging branch.
NeverReturnsAfterNewBuys(new_stocks_bought) == FALSE

\* "If there has been any buy, then return": the averaging branch is reached
\* only when the loop over stock_list placed nothing.
ReturnsAfterNewBuys(new_stocks_bought) == new_stocks_bought > 0

BuyOrder(action, trade) ==
    [action |-> action, symbol |-> trade.tradingSymbol, price |-> trade.entry]

RECURSIVE BuyOrders(_, _)
BuyOrders(action, trades) ==
    IF trades = <<>> THEN <<>>
    ELSE <<BuyOrder(action, Head(trades))>> \o BuyOrders(action, Tail(trades))

\* -------------------------------------------------- configuration manager

ConfigKeys ==
    {"daily_trade_limit", "profit_threshold_for_selling",
     "loss_threshold_for_averaging"}

\* self.default_config, without its version and timestamp.
default_config ==
    [daily_trade_limit |-> 1, profit_threshold_for_selling |-> 5,
     loss_threshold_for_averaging |-> -3]

\* The values a file or a prompt can give each parameter.
ConfigValues(k) ==
    CASE k = "daily_trade_limit" -> {0, 1, 11}
      [] k = "profit_threshold_for_selling" -> {0, 5, 10}
      [] k = "loss_threshold_for_averaging" -> {0, -3, -5}

\* The JSON objects the file can hold: any of the keys, each with a value.
FileContents ==
    UNION {{f \in [D -> {-5, -3, 0, 1, 5, 10, 11}] :
               \A k \in D : f[k] \in ConfigValues(k)} :
           D \in SUBSET ConfigKeys}

NoFile == <<>>

\* {**self.default_config, **config}
MergeConfig(defaults, file) ==
    [k \in ConfigKeys |-> IF k \in DOMAIN file THEN file[k] ELSE defaults[k]]

\* load_config: the file merged over the defaults; the defaults when there
\* is no file or when reading it raises.
LoadConfigResult(file, readable) ==
    IF file # NoFile /\ readable
    THEN MergeConfig(default_config, file[1])
    ELSE default_config

\* _validate_config; confirms[i] is the answer to its i-th Confirm.ask.
ValidateConfig(cfg, confirms) ==
    IF cfg.daily_trade_limit <= 0 THEN FALSE
    ELSE IF cfg.profit_threshold_for_selling <= 0 THEN FALSE
    ELSE IF cfg.loss_threshold_for_averaging >= 0 THEN FALSE
    ELSE IF cfg.daily_trade_limit > 10 /\ ~confirms[1] THEN FALSE
    ELSE IF cfg.profit_threshold_for_selling > 50 /\ ~confirms[2] THEN FALSE
    ELSE IF cfg.loss_threshold_for_averaging < -20 /\ ~confirms[3] THEN FALSE
    ELSE TRUE

\* save_config: the file after the call.
SaveConfig(file, cfg, writable) == IF writable THEN <<cfg>> ELSE file

\* --------------------------------------------------------- Zerodha client

\* ZerodhaClient.__init__ with its credentials: a fresh session, no token.
\* call and returned are the last method called and what it returned.
NewClient ==
    [enctoken |-> <<>>, authorization |-> <<>>, cookie |-> <<>>, posts |-> 0,
     call |-> "none", returned |-> "none"]

\* The enctoken values the server issues.
Tokens == {1, 2, 3}
Cookies == {<<>>} \cup {<<t>> : t \in Tokens}

\* How a login attempt ends at the server: the first POST fails, its answer
\* lacks the request id, the 2FA POST fails, or both POSTs succeed.
LoginOutcomes == {"login_failed", "bad_format", "twofa_failed", "done"}

\* A variant of login that drops the token it holds before it starts.
LoginResultTokenReset(c, outcome, set_cookie) ==
    LET jar == IF outcome = "done" /\ set_cookie # <<>>
               THEN set_cookie ELSE c.cookie
    IN CASE outcome = "login_failed" ->
               [c EXCEPT !.posts = @ + 1, !.enctoken = <<>>,
                         !.returned = "RequestException"]
         [] outcome = "bad_format" ->
               [c EXCEPT !.posts = @ + 1, !.enctoken = <<>>,
                         !.returned = "ValueError"]
         [] outcome = "twofa_failed" ->
               [c EXCEPT !.posts = @ + 2, !.enctoken = <<>>,
                         !.returned = "RequestException"]
         [] outcome = "done" ->
               IF jar = <<>>
               THEN [c EXCEPT !.posts = @ + 2, !.cookie = jar,
                              !.enctoken = <<>>, !.returned = "ValueError"]
               ELSE [c EXCEPT !.posts = @ + 2, !.cookie = jar,
                              !.enctoken = jar, !.authorization = jar,
                              !.returned = "session"]

\* login: the client after the call.  set_cookie is the enctoken cookie the
\* 2FA answer sets, if any; without one the cookie jar keeps what it has.
\* returned is the session, or the exception the call raised.
LoginResult(c, outcome, set_cookie) ==
    LET jar == IF outcome = "done" /\ set_cookie # <<>>
               THEN set_cookie ELSE c.cookie
    IN CASE outcome = "login_failed" ->
               [c EXCEPT !.posts = @ + 1, !.returned = "RequestException"]
         [] outcome = "bad_format" ->
               [c EXCEPT !.posts = @ + 1, !.returned = "ValueError"]
         [] outcome = "twofa_failed" ->
               [c EXCEPT !.posts = @ + 2, !.returned = "RequestException"]
         [] outcome = "done" ->
               IF jar = <<>>
               THEN [c EXCEPT !.posts = @ + 2, !.cookie = jar,
                              !.returned = "ValueError"]
               ELSE [c EXCEPT !.posts = @ + 2, !.cookie = jar,
                              !.enctoken = jar, !.authorization = jar,
                              !.returned = "session"]

\* get_authenticated_session: the existing session, or a login.
GetAuthenticatedSessionResult(c, outcome, set_cookie) ==
    IF c.enctoken # <<>> /\ c.authorization # <<>>
    THEN [c EXCEPT !.returned = "session"]
    ELSE LoginResult(c, outcome, set_cookie)

\* ------------------------------------------------------------------- main

\* The parameters NiftyShopStrategy.__init__ takes besides self.
InitParameters == {"zerodha_client"}

\* NiftyShopStrategy(...) called with these arguments.
Construct(arguments) ==
    IF arguments \subseteq InitParameters THEN "ok" ELSE "TypeError"

\* main: whether it reached execute_strategy, and the exit code it returns.
\* credentials: ZerodhaClient() found its credentials (ValueError otherwise);
\* login: what client.login() returned; strategy_raises: execute_strategy
\* raised.
MainResult(config_only, credentials, login, strategy_raises) ==
    LET constructed == Construct({"zerodha_client", "force_reconfigure"})
    IN IF ~credentials THEN [executed |-> FALSE, exit_code |-> 1]
       ELSE IF login # "session" THEN [executed |-> FALSE, exit_code |-> 1]
       ELSE IF constructed # "ok" THEN [executed |-> FALSE, exit_code |-> 1]
       ELSE IF config_only THEN [executed |-> FALSE, exit_code |-> 0]
       ELSE IF strategy_raises THEN [executed |-> TRUE, exit_code |-> 1]
       ELSE [executed |-> TRUE, exit_code |-> 0]

\* ------------------------------------------------------------ construction

\* What the broker can hold of one symbol: a position bought at 100, a
\* position with no average price, and a closed position of quantity 0.
RawKinds ==
    {[average_price |-> BasePrice, quantity |-> 1],
     [average_price |-> 0, quantity |-> 1],
     [average_price |-> BasePrice, quantity |-> 0]}

RawHolding(s, k) ==
    [tradingsymbol |-> s, average_price |-> k.average_price,
     quantity |-> k.quantity]

\* The holdings lists of the broker: at most MaxHold records, one per symbol.
BrokerLists ==
    UNION {{[i \in DOMAIN t |-> RawHolding(t[i], k[i])] :
               k \in [DOMAIN t -> RawKinds]} :
           t \in DistinctSeqs(Symbols, MaxHold)}

NoSell == [holdings |-> <<>>, raised |-> FALSE, seen |-> <<>>,
           profitable |-> <<>>]
NoRank == [hist |-> <<>>, sorted_results |-> <<>>]
NoBuy == [holdings |-> <<>>, aliased |-> FALSE, new |-> NoNewBuys,
          averaging |-> FALSE, averaging_symbol |-> <<>>]

\* NiftyShopStrategy.__init__, and the environment the object will meet.
Init ==
    /\ instrument_tokens = {}
    /\ mock_trades = <<>>
    /\ broker \in BrokerLists
    /\ quote \in QuoteMaps
    /\ depth \in [Symbols -> {Window - 1, Window}]
    /\ pc = "idle"
    /\ runs = 0
    /\ stocks_sold = 0
    /\ eligible_stocks = <<>>
    /\ sell = NoSell
    /\ rank = NoRank
    /\ buy = NoBuy
    /\ config_file = NoFile
    /\ config = <<>>
    /\ client = NewClient
    /\ main = <<>>
    /\ orders = <<>>
    /\ log = <<>>

\* The holdings of the finer market: positions bought at 100 or at 267, and
\* positions without an average price.
FineKinds ==
    {[average_price |-> BasePrice, quantity |-> 1],
     [average_price |-> FineEntry, quantity |-> 1],
     [average_price |-> 0, quantity |-> 1]}

FineBrokerLists ==
    UNION {{[i \in DOMAIN t |-> RawHolding(t[i], k[i])] :
               k \in [DOMAIN t -> FineKinds]} :
           t \in DistinctSeqs(Symbols, MaxHold)}

\* NiftyShopStrategy.__init__ in the finer market, every symbol with a full
\* window of candles.
FineInit ==
    /\ instrument_tokens = {}
    /\ mock_trades = <<>>
    /\ broker \in FineBrokerLists
    /\ quote \in [Symbols -> FineQuotes]
    /\ depth = [s \in Symbols |-> Window]
    /\ pc = "idle"
    /\ runs = 0
    /\ stocks_sold = 0
    /\ eligible_stocks = <<>>
    /\ sell = NoSell
    /\ rank = NoRank
    /\ buy = NoBuy
    /\ config_file = NoFile
    /\ config = <<>>
    /\ client = NewClient
    /\ main = <<>>
    /\ orders = <<>>
    /\ log = <<>>

\* A market below its average with positions bought lower still: at 96 a
\* position bought at 90 is both in profit and below the 20-day average.
LowEntry == 90
LowKinds ==
    {[average_price |-> LowEntry, quantity |-> 1],
     [average_price |-> BasePrice, quantity |-> 1]}

LowBrokerLists ==
    UNION {{[i \in DOMAIN t |-> RawHolding(t[i], k[i])] :
               k \in [DOMAIN t -> LowKinds]} :
           t \in DistinctSeqs(Symbols, MaxHold)}

LowInit ==
    /\ instrument_tokens = {}
    /\ mock_trades = <<>>
    /\ broker \in LowBrokerLists
    /\ quote \in [Symbols -> {NoPrice, <<96>>, <<100>>}]
    /\ depth = [s \in Symbols |-> Window]
    /\ pc = "idle"
    /\ runs = 0
    /\ stocks_sold = 0
    /\ eligible_stocks = <<>>
    /\ sell = NoSell
    /\ rank = NoRank
    /\ buy = NoBuy
    /\ config_file = NoFile
    /\ config = <<>>
    /\ client = NewClient
    /\ main = <<>>
    /\ orders = <<>>
    /\ log = <<>>

\* What _fetch_instrument_tokens can find: the symbols the instruments list
\* has; the empty set is its failure.
TokenOutcomes(syms) == SUBSET Range(syms)

\* ---------------------------------------------------------------- actions

\* A variant of execute_strategy that ranks first, then sells, then buys.
PositionAnalysisFirst(step) ==
    CASE step = "get_eligible_stocks_for_today" -> "start"
      [] step = "initiate_sell" -> "ranked"
      [] step = "initiate_buy" -> "sold"

\* The position of execute_strategy at which it takes each of its steps:
\* initiate_sell first, then the ranking, then initiate_buy.
Position(step) ==
    CASE step = "initiate_sell" -> "start"
      [] step = "get_eligible_stocks_for_today" -> "sold"
      [] step = "initiate_buy" -> "ranked"

\* A variant of execute_strategy without the early return.
AlwaysInitiateBuy(eligible) == "ranked"

\* "if not eligible_stocks: ... return": execute_strategy ends after the
\* ranking when nothing is eligible, and goes on to initiate_buy otherwise.
AfterRanking(eligible) == IF eligible = <<>> THEN "done" ELSE "ranked"

\* A call of execute_strategy on the strategy object; the records of the
\* previous call are dropped.
ExecuteStrategy ==
    /\ pc \in {"idle", "done", "raised"}
    /\ runs < MaxRuns
    /\ pc' = "start"
    /\ runs' = runs + 1
    /\ stocks_sold' = 0
    /\ eligible_stocks' = <<>>
    /\ sell' = NoSell
    /\ rank' = NoRank
    /\ buy' = NoBuy
    /\ orders' = <<>>
    /\ log' = <<>>
    /\ UNCHANGED <<instrument_tokens, mock_trades, broker, quote, depth,
                   config_file, config, client, main>>

\* execute_strategy, step 1: initiate_sell.  The analysis loop reads the
\* prices of `quote`, the order loop those of q2.  A KeyError leaves
\* execute_strategy through its caller.
InitiateSell ==
    /\ pc = Position("initiate_sell")
    /\ \E outcome \in HoldingsOutcomes, q2 \in Drift(quote) :
          LET current_holdings ==
                  GetCurrentHoldings(outcome, broker, mock_trades)
              raised == SellRaises(current_holdings)
              profitable_holdings ==
                  IF raised THEN <<>>
                  ELSE SortByProfit(ProfitableHoldings(
                           current_holdings, instrument_tokens, quote))
              placed ==
                  PlaceSellOrders(profitable_holdings, instrument_tokens, q2)
          IN /\ sell' = [holdings |-> current_holdings,
                         raised |-> raised,
                         seen |-> [s \in Symbols |->
                                     GetCmp(instrument_tokens, quote, s)],
                         profitable |-> profitable_holdings]
             /\ orders' = orders \o placed
             /\ stocks_sold' = StocksSold(profitable_holdings,
                                          instrument_tokens, q2)
             /\ pc' = IF raised THEN "raised" ELSE "sold"
             /\ log' = log \o <<Event("sell", "holdings")>>
                       \o (IF raised THEN <<>>
                           ELSE [i \in 1..Len(current_holdings) |->
                                   Event("sell", "cmp")])
                       \o SellOrderEvents(profitable_holdings,
                                          instrument_tokens, q2)
    /\ UNCHANGED <<instrument_tokens, mock_trades, broker, quote, depth, runs,
                   eligible_stocks, rank, buy, config_file, config,
                   client, main>>

\* execute_strategy, step 2: get_eligible_stocks_for_today over the universe
\* `syms` (self.symbols), and the return of execute_strategy when nothing is
\* eligible.
GetEligibleStocks(syms) ==
    /\ pc = Position("get_eligible_stocks_for_today")
    /\ \E found \in TokenOutcomes(syms) :
          LET fetch == instrument_tokens = {}
              tokens == IF fetch THEN found ELSE instrument_tokens
              hist == [s \in Range(syms) |->
                         GetHistoricalData(tokens, quote, depth, s)]
              sorted_results == SortByDeviation(RankResults(syms, hist))
              top_5_symbols ==
                  IF tokens = {} THEN <<>> ELSE TopSymbols(sorted_results)
          IN /\ fetch \/ found = instrument_tokens
             /\ instrument_tokens' = tokens
             /\ rank' = [hist |-> hist,
                         sorted_results |->
                             IF tokens = {} THEN <<>> ELSE sorted_results]
             /\ eligible_stocks' = top_5_symbols
             /\ pc' = AfterRanking(top_5_symbols)
             /\ log' = log
                       \o (IF fetch THEN <<Event("rank", "tokens")>> ELSE <<>>)
                       \o [i \in 1..Cardinality(tokens) |->
                              Event("rank", "history")]
    /\ UNCHANGED <<mock_trades, broker, quote, depth, runs, stocks_sold,
                   sell, buy, orders, config_file, config, client, main>>

GetEligibleStocksForToday == GetEligibleStocks(symbols)

\* execute_strategy, step 3: initiate_buy, then the final holdings fetch of
\* the summary.  The averaging analysis reads the prices of `quote`, the
\* order placements (_place_new_trade) those of q2.
InitiateBuy ==
    /\ pc = Position("initiate_buy")
    /\ \E outcome \in HoldingsOutcomes, q2 \in Drift(quote) :
          LET current_holdings ==
                  GetCurrentHoldings(outcome, broker, mock_trades)
              aliased == outcome = "exception"
              new == NewPositionLoop(eligible_stocks, current_holdings,
                                     aliased, instrument_tokens, q2,
                                     NoNewBuys)
              returns == ReturnsAfterNewBuys(Len(new.trades))
              averaging_symbol ==
                  IF returns THEN <<>>
                  ELSE AveragingSymbol(current_holdings, instrument_tokens,
                                       quote)
              averaging_trade ==
                  IF averaging_symbol = <<>> THEN <<>>
                  ELSE PlaceNewTrade(averaging_symbol[1], instrument_tokens,
                                     q2)
          IN /\ mock_trades' = mock_trades \o new.trades \o averaging_trade
             /\ orders' = orders \o BuyOrders("BUY_NEW", new.trades)
                                 \o BuyOrders("BUY_AVERAGE", averaging_trade)
             /\ buy' = [holdings |-> current_holdings,
                        aliased |-> aliased,
                        new |-> new,
                        averaging |-> ~returns,
                        averaging_symbol |-> averaging_symbol]
             /\ log' = log
                       \o <<Event("buy", "holdings")>>
                       \o new.events
                       \o (IF returns THEN <<>>
                           ELSE [i \in 1..Len(LastBuys(current_holdings, 1))
                                   |-> Event("buy", "cmp")])
                       \o (IF averaging_symbol = <<>> THEN <<>>
                           ELSE <<Event("buy", "cmp")>>)
                       \o [i \in 1..Len(averaging_trade) |->
                              Event("buy", "order")]
                       \o <<Event("summary", "holdings")>>
    /\ pc' = "done"
    /\ UNCHANGED <<instrument_tokens, broker, quote, depth, runs,
                   stocks_sold, eligible_stocks, sell, rank, config_file,
                   config, client, main>>

Next ==
    \/ ExecuteStrategy
    \/ InitiateSell
    \/ GetEligibleStocksForToday
    \/ InitiateBuy

Spec == Init /\ [][Next]_vars

\* The same program in the finer market.
FineSpec == FineInit /\ [][Next]_vars

\* The same program in the market below its average.
LowSpec == LowInit /\ [][Next]_vars

\* A universe with one symbol more than the ranking returns.
wide_symbols == [i \in 1..(TopN + 1) |-> i]
WidePrices == {90, 96, 100}

\* The first run of an account without holdings, in the wide universe, at
\* the return of initiate_sell: the ranking is the next step.
RankInit ==
    /\ instrument_tokens = {}
    /\ mock_trades = <<>>
    /\ broker = <<>>
    /\ quote \in [Range(wide_symbols) -> {<<p>> : p \in WidePrices}]
    /\ depth = [s \in Range(wide_symbols) |-> Window]
    /\ pc = Position("get_eligible_stocks_for_today")
    /\ runs = 1
    /\ stocks_sold = 0
    /\ eligible_stocks = <<>>
    /\ sell = [NoSell EXCEPT !.seen = [s \in Symbols |-> NoPrice]]
    /\ rank = NoRank
    /\ buy = NoBuy
    /\ config_file = NoFile
    /\ config = <<>>
    /\ client = NewClient
    /\ main = <<>>
    /\ orders = <<>>
    /\ log = <<Event("sell", "holdings")>>

GetEligibleStocksWide == GetEligibleStocks(wide_symbols)

RankSpec == RankInit /\ [][GetEligibleStocksWide]_vars

\* The wide universe with symbols that have closed at 0 throughout.
ZeroPrices == {0, 96}
ZeroInit ==
    /\ instrument_tokens = {}
    /\ mock_trades = <<>>
    /\ broker = <<>>
    /\ quote \in [Range(wide_symbols) -> {<<p>> : p \in ZeroPrices}]
    /\ depth = [s \in Range(wide_symbols) |-> Window]
    /\ pc = Position("get_eligible_stocks_for_today")
    /\ runs = 1
    /\ stocks_sold = 0
    /\ eligible_stocks = <<>>
    /\ sell = [NoSell EXCEPT !.seen = [s \in Symbols |-> NoPrice]]
    /\ rank = NoRank
    /\ buy = NoBuy
    /\ config_file = NoFile
    /\ config = <<>>
    /\ client = NewClient
    /\ main = <<>>
    /\ orders = <<>>
    /\ log = <<Event("sell", "holdings")>>

ZeroSpec == ZeroInit /\ [][GetEligibleStocksWide]_vars

\* The orders self.symbols can list the wide universe in: its rotations.
Rotations(syms) ==
    {[i \in DOMAIN syms |-> syms[((i + k - 1) % Len(syms)) + 1]] :
        k \in 0..(Len(syms) - 1)}

\* The wide universe with every close below the average.
ReorderedInit ==
    /\ RankInit
    /\ \A s \in Range(wide_symbols) : quote[s][1] < BasePrice

\* The ranking over the wide universe listed in any of these orders.
GetEligibleStocksReordered ==
    \E syms \in Rotations(wide_symbols) : GetEligibleStocks(syms)

ReorderedSpec == ReorderedInit /\ [][GetEligibleStocksReordered]_vars

\* ConfigManager.__init__ next to a freshly constructed strategy: the file
\* is absent or holds whatever an earlier setup or a hand edit left there.
ConfigInit ==
    /\ instrument_tokens = {}
    /\ mock_trades = <<>>
    /\ broker = <<>>
    /\ quote = [s \in Symbols |-> NoPrice]
    /\ depth = [s \in Symbols |-> Window]
    /\ pc = "idle"
    /\ runs = 0
    /\ stocks_sold = 0
    /\ eligible_stocks = <<>>
    /\ sell = NoSell
    /\ rank = NoRank
    /\ buy = NoBuy
    /\ config_file \in {NoFile} \cup {<<f>> : f \in FileContents}
    /\ config = <<>>
    /\ client = NewClient
    /\ main = <<>>
    /\ orders = <<>>
    /\ log = <<>>

\* load_config
LoadConfig ==
    /\ \E readable \in BOOLEAN :
           config' = <<LoadConfigResult(config_file, readable)>>
    /\ UNCHANGED <<instrument_tokens, mock_trades, broker, quote, depth, pc,
                   runs, stocks_sold, eligible_stocks, sell, rank, buy,
                   orders, log, config_file, client, main>>

\* interactive_setup: the three prompts, validation, confirmation, save.
InteractiveSetup ==
    /\ \E readable, confirmed, writable \in BOOLEAN,
          confirms \in [1..3 -> BOOLEAN],
          daily_limit \in ConfigValues("daily_trade_limit"),
          profit_threshold \in ConfigValues("profit_threshold_for_selling"),
          loss_threshold \in ConfigValues("loss_threshold_for_averaging") :
           LET current_config == LoadConfigResult(config_file, readable)
               new_config ==
                   [current_config EXCEPT
                       !["daily_trade_limit"] = daily_limit,
                       !["profit_threshold_for_selling"] = profit_threshold,
                       !["loss_threshold_for_averaging"] = loss_threshold]
           IN  IF ValidateConfig(new_config, confirms)
               THEN IF confirmed
                    THEN /\ config_file' =
                                SaveConfig(config_file, new_config, writable)
                         /\ config' = <<new_config>>
                    ELSE /\ config' = <<current_config>>
                         /\ UNCHANGED config_file
               ELSE /\ config' = <<current_config>>
                    /\ UNCHANGED config_file
    /\ UNCHANGED <<instrument_tokens, mock_trades, broker, quote, depth, pc,
                   runs, stocks_sold, eligible_stocks, sell, rank, buy,
                   orders, log, client, main>>

ConfigNext ==
    \/ LoadConfig
    \/ InteractiveSetup

ConfigSpec == ConfigInit /\ [][ConfigNext]_vars

\* ZerodhaClient.login
Login ==
    /\ client.posts + 2 <= MaxPosts
    /\ \E outcome \in LoginOutcomes, set_cookie \in Cookies :
           client' = [LoginResult(client, outcome, set_cookie)
                         EXCEPT !.call = "login"]
    /\ UNCHANGED <<instrument_tokens, mock_trades, broker, quote, depth, pc,
                   runs, stocks_sold, eligible_stocks, sell, rank, buy,
                   orders, log, config_file, config, main>>

\* ZerodhaClient.get_authenticated_session
GetAuthenticatedSession ==
    /\ client.posts + 2 <= MaxPosts
    /\ \E outcome \in LoginOutcomes, set_cookie \in Cookies :
           client' = [GetAuthenticatedSessionResult(client, outcome,
                                                    set_cookie)
                         EXCEPT !.call = "get_authenticated_session"]
    /\ UNCHANGED <<instrument_tokens, mock_trades, broker, quote, depth, pc,
                   runs, stocks_sold, eligible_stocks, sell, rank, buy,
                   orders, log, config_file, config, main>>

ClientNext ==
    \/ Login
    \/ GetAuthenticatedSession

\* A ZerodhaClient on its own, called any number of times.
ClientInit ==
    /\ ConfigInit
    /\ config_file = NoFile

ClientSpec == ClientInit /\ [][ClientNext]_vars

\* main(): the client, the login, the strategy object, the strategy run.
Main ==
    /\ main = <<>>
    /\ \E config_only, reconfigure, credentials, strategy_raises \in BOOLEAN,
          outcome \in LoginOutcomes, set_cookie \in Cookies :
           LET logged == [LoginResult(NewClient, outcome, set_cookie)
                             EXCEPT !.call = "login"]
               result == MainResult(config_only, credentials,
                                    logged.returned, strategy_raises)
           IN /\ client' = IF credentials THEN logged ELSE client
              /\ main' = <<[config_only |-> config_only,
                            reconfigure |-> reconfigure,
                            login |-> IF credentials THEN logged.returned
                                      ELSE "none",
                            executed |-> result.executed,
                            exit_code |-> result.exit_code]>>
    /\ UNCHANGED <<instrument_tokens, mock_trades, broker, quote, depth, pc,
                   runs, stocks_sold, eligible_stocks, sell, rank, buy,
                   orders, log, config_file, config>>

\* main started once, in any state of the configuration file.
MainSpec == ConfigInit /\ [][Main]_vars

\* ----------------------------------------------------------------- claims

OrdersOf(action) == {i \in DOMAIN orders : orders[i].action = action}

\* The holdings an undisturbed holdings fetch returns.
BrokerSnapshot == ConvertHoldings(broker)

\* C1: the new-position buy orders placed in one run never number more than
\* daily_trade_limit, however many unheld candidates there are and whether or
\* not placements fail.
NewBuysWithinDailyLimit ==
    /\ Cardinality(OrdersOf("BUY_NEW")) <= daily_trade_limit
    /\ Len(buy.new.trades) <= daily_trade_limit

\* A run that bought one candidate and skipped another unheld one.
NewBuysWithinDailyLimitWitness ==
    /\ pc = "done"
    /\ buy.new.trades # <<>>
    /\ buy.new.skipped # <<>>

\* C2: a run that places a new-position buy does not evaluate the averaging
\* branch, so no run places both a new-position buy and an averaging buy.
BuyBranchesExclusive ==
    /\ ~(OrdersOf("BUY_NEW") # {} /\ OrdersOf("BUY_AVERAGE") # {})
    /\ buy.new.trades # <<>> => (~buy.averaging /\ buy.averaging_symbol = <<>>)

\* A run that placed a new-position buy while a holding had fallen far
\* enough to be averaged.
BuyBranchesExclusiveWitness ==
    /\ pc = "done"
    /\ OrdersOf("BUY_NEW") # {}
    /\ AveragingSymbol(buy.holdings, instrument_tokens, quote) # <<>>

\* C3: the averaging branch is entered only in a run where every candidate
\* of the ranked list is present in the current holdings.
AveragingOnlyWhenAllHeld ==
    buy.averaging =>
        \A i \in DOMAIN eligible_stocks :
            IsPartOfHolding(eligible_stocks[i], buy.holdings)

\* C4, as claimed: a run whose ranking yields no candidate places exactly one
\* averaging buy when some holding has fallen to the averaging threshold.
AveragingWithoutCandidates ==
    (/\ pc = "done"
     /\ eligible_stocks = <<>>
     /\ AveragingSymbol(BrokerSnapshot, instrument_tokens, quote) # <<>>)
    => Cardinality(OrdersOf("BUY_AVERAGE")) = 1

\* C4, amended: a run whose ranking yields no candidate ends after the
\* ranking; initiate_buy is not called and the run places no buy order.
NoBuyWithoutCandidates ==
    (pc = "done" /\ eligible_stocks = <<>>)
    => (/\ buy = NoBuy
        /\ OrdersOf("BUY_NEW") = {}
        /\ OrdersOf("BUY_AVERAGE") = {})

\* A finished run without candidates in which a holding had fallen to the
\* averaging threshold.
NoBuyWithoutCandidatesWitness ==
    /\ pc = "done"
    /\ eligible_stocks = <<>>
    /\ rank # NoRank
    /\ AveragingSymbol(BrokerSnapshot, instrument_tokens, quote) # <<>>

\* C5: a holding whose price is available is selected for selling exactly
\* when (current_price - entry) / entry * 100 is strictly above 5.
SellIffAboveThreshold ==
    \A i \in DOMAIN sell.holdings :
        LET h == sell.holdings[i]
            p == sell.seen[h.tradingSymbol]
        IN (~sell.raised /\ p # NoPrice /\ h.entry > 0)
           => ((\E k \in DOMAIN sell.profitable :
                   sell.profitable[k].holding = h)
               <=> (p[1] - h.entry) * 100 > 5 * h.entry)

\* A sell pass over a holding whose profit is exactly 5%.
SellIffAboveThresholdWitness ==
    /\ pc = "sold"
    /\ \E i \in DOMAIN sell.holdings :
          LET h == sell.holdings[i]
              p == sell.seen[h.tradingSymbol]
          IN p # NoPrice /\ h.entry > 0
             /\ (p[1] - h.entry) * 100 = 5 * h.entry

\* C6: a holding whose price cannot be fetched is not selected and gets no
\* sell order; every sell order carries a price the market quoted.
MissingPriceNeverSold ==
    /\ \A k \in DOMAIN sell.profitable :
          sell.seen[sell.profitable[k].holding.tradingSymbol] # NoPrice
    /\ \A i \in OrdersOf("SELL") :
          /\ orders[i].price \in Prices
          /\ sell.seen[orders[i].symbol] # NoPrice

\* A sell pass that sold one holding and met another without a price.
MissingPriceNeverSoldWitness ==
    /\ pc = "sold"
    /\ instrument_tokens # {}
    /\ OrdersOf("SELL") # {}
    /\ \E i \in DOMAIN sell.holdings :
          sell.seen[sell.holdings[i].tradingSymbol] = NoPrice

PhaseRank(phase) ==
    CASE phase = "sell" -> 1
      [] phase = "rank" -> 2
      [] phase = "buy" -> 3
      [] phase = "summary" -> 4

BuySeesSells ==
    (pc = "done" /\ buy # NoBuy)
    => \A i \in OrdersOf("SELL") :
           ~IsPartOfHolding(orders[i].symbol, buy.holdings)

\* The closes of a fetched frame, which the API lists in date order.
Closes(fetched) == [i \in DOMAIN fetched[1] |-> fetched[1][i].close]

\* C9: a symbol whose fetched history has fewer than 20 closes is not in the
\* output of the ranking.
ShortHistoryNeverRanked ==
    \A s \in DOMAIN rank.hist :
        (rank.hist[s] # <<>> /\ Len(Closes(rank.hist[s])) < 20)
        => s \notin Range(eligible_stocks)

\* A ranking that met a symbol with 19 closes, the latest below the others.
ShortHistoryNeverRankedWitness ==
    /\ pc \in {"ranked", "done"}
    /\ \E s \in DOMAIN rank.hist :
          /\ rank.hist[s] # <<>>
          /\ Len(Closes(rank.hist[s])) < 20
          /\ Closes(rank.hist[s])[Len(Closes(rank.hist[s]))] < BasePrice

\* The sum of the last 20 closes of a frame of at least 20 rows.
Last20(c) == SeqSum(SubSeq(c, Len(c) - 19, Len(c)))

\* C10: a symbol whose latest close is at or above its 20-day moving average
\* is not in the output of the ranking.
AtOrAboveAverageNeverRanked ==
    \A s \in DOMAIN rank.hist :
        LET c == Closes(rank.hist[s])
        IN (rank.hist[s] # <<>> /\ Len(c) >= 20
            /\ 20 * c[Len(c)] >= Last20(c))
           => s \notin Range(eligible_stocks)

\* A ranking that met a symbol whose latest close equals its average, and
\* ranked another.
AtOrAboveAverageNeverRankedWitness ==
    /\ pc = "ranked"
    /\ \E s \in DOMAIN rank.hist :
          LET c == Closes(rank.hist[s])
          IN rank.hist[s] # <<>> /\ Len(c) >= 20
             /\ 20 * c[Len(c)] = Last20(c)

\* The symbols the ranking met with 20 closes or more and a latest close
\* strictly below the mean of the last 20.
Qualifying ==
    {s \in DOMAIN rank.hist :
        /\ rank.hist[s] # <<>>
        /\ Len(Closes(rank.hist[s])) >= 20
        /\ 20 * Closes(rank.hist[s])[Len(Closes(rank.hist[s]))]
               < Last20(Closes(rank.hist[s]))}

\* deviation_pct of a is at most that of b: latest/mean - 1 compared by
\* cross-multiplication.
DeviationAtMost(a, b) ==
    LET ca == Closes(rank.hist[a])
        cb == Closes(rank.hist[b])
    IN ca[Len(ca)] * Last20(cb) <= cb[Len(cb)] * Last20(ca)

\* C11: the ranking output holds min(5, number of qualifying symbols)
\* distinct qualifying symbols in ascending order of deviation_pct, and no
\* qualifying symbol left out has a smaller deviation_pct than a returned
\* one; it is empty when no symbol qualifies.
RankingIsTopN ==
    /\ Len(eligible_stocks) =
           IF Cardinality(Qualifying) < 5 THEN Cardinality(Qualifying) ELSE 5
    /\ Range(eligible_stocks) \subseteq Qualifying
    /\ \A i, j \in DOMAIN eligible_stocks :
          i < j => /\ eligible_stocks[i] # eligible_stocks[j]
                   /\ DeviationAtMost(eligible_stocks[i], eligible_stocks[j])
    /\ \A r \in Range(eligible_stocks) :
          \A q \in Qualifying \ Range(eligible_stocks) : DeviationAtMost(r, q)

\* A ranking with six qualifying symbols whose output leaves out one that
\* is nearer to its average than a returned one.
RankingIsTopNWitness ==
    /\ pc = "ranked"
    /\ Cardinality(Qualifying) > 5
    /\ \E r \in Range(eligible_stocks) :
          \E q \in Qualifying \ Range(eligible_stocks) : ~DeviationAtMost(q, r)

\* The buy phase ran and found every ranked candidate among its holdings.
AllCandidatesHeld ==
    /\ pc = "done"
    /\ eligible_stocks # <<>>
    /\ \A i \in DOMAIN eligible_stocks :
          \E k \in DOMAIN buy.holdings :
              buy.holdings[k].tradingSymbol = eligible_stocks[i]

\* The price the averaging pass read for a held symbol, and the price of the
\* symbol's latest acquisition.
PriceAtBuy(s) == GetCmp(instrument_tokens, quote, s)
LastBuyPrice(s) ==
    LET hs == buy.holdings
        last == CHOOSE i \in DOMAIN hs :
                    /\ hs[i].tradingSymbol = s
                    /\ \A j \in DOMAIN hs : hs[j].tradingSymbol = s => j <= i
    IN hs[last].entry

\* The held symbols with change_pct = (current - last_buy_price) /
\* last_buy_price * 100 <= -3, change_pct being 0 for a last buy price of 0.
Fallen ==
    {s \in {buy.holdings[k].tradingSymbol : k \in DOMAIN buy.holdings} :
        /\ PriceAtBuy(s) # NoPrice
        /\ LastBuyPrice(s) > 0
        /\ (PriceAtBuy(s)[1] - LastBuyPrice(s)) * 100 <= -3 * LastBuyPrice(s)}

\* C12: when every candidate is held and no holding has change_pct <= -3,
\* the buy phase places no buy order.
NoBuyWhenNothingFallen ==
    (AllCandidatesHeld /\ Fallen = {})
    => (OrdersOf("BUY_NEW") = {} /\ OrdersOf("BUY_AVERAGE") = {})

\* C13: when every candidate is held and exactly one holding has
\* change_pct <= -3, the buy phase decides one averaging buy, for that
\* symbol, and nothing else.
OneFallenIsAveraged ==
    (AllCandidatesHeld /\ Cardinality(Fallen) = 1)
    => /\ buy.averaging_symbol # <<>>
       /\ buy.averaging_symbol[1] \in Fallen
       /\ OrdersOf("BUY_NEW") = {}
       /\ Cardinality(OrdersOf("BUY_AVERAGE")) <= 1
       /\ \A i \in OrdersOf("BUY_AVERAGE") : orders[i].symbol \in Fallen

\* a's change_pct is at most b's, compared by cross-multiplication.
FellAtLeast(a, b) ==
    (PriceAtBuy(a)[1] - LastBuyPrice(a)) * LastBuyPrice(b)
        <= (PriceAtBuy(b)[1] - LastBuyPrice(b)) * LastBuyPrice(a)

\* The place of a symbol's first record in the holdings.
FirstHeldAt(s) ==
    CHOOSE i \in DOMAIN buy.holdings :
        /\ buy.holdings[i].tradingSymbol = s
        /\ \A j \in DOMAIN buy.holdings :
              buy.holdings[j].tradingSymbol = s => i <= j

\* C14: the averaging branch chooses the holding with the most negative
\* change_pct, among equal ones the first in holdings order, and places at
\* most one averaging buy.
MostFallenFirstHeld ==
    (pc = "done" /\ buy.averaging /\ Fallen # {})
    => /\ buy.averaging_symbol # <<>>
       /\ buy.averaging_symbol[1] \in Fallen
       /\ \A t \in Fallen :
             /\ FellAtLeast(buy.averaging_symbol[1], t)
             /\ FellAtLeast(t, buy.averaging_symbol[1])
                => FirstHeldAt(buy.averaging_symbol[1]) <= FirstHeldAt(t)
       /\ Cardinality(OrdersOf("BUY_AVERAGE")) <= 1

\* C15: a data error of one symbol (no price, a holding record that lacks a
\* field) makes the phase skip that symbol and never ends the pass: no run
\* leaves initiate_sell by an exception, and the ranking follows every sell
\* phase.
DataErrorSkipsOnlyItsSymbol ==
    /\ ~sell.raised
    /\ pc # "raised"

\* The invariants of a configuration.
ValidConfiguration(cfg) ==
    /\ cfg.daily_trade_limit >= 1
    /\ cfg.profit_threshold_for_selling > 0
    /\ cfg.loss_threshold_for_averaging < 0

\* C16: a configuration that violates the invariants (daily_trade_limit >= 1,
\* profit threshold > 0, loss threshold < 0) is never handed out: whatever
\* load_config or interactive_setup returns satisfies them.
HandedConfigurationIsValid ==
    config # <<>> => ValidConfiguration(config[1])

\* C17: the new-buy cap, the profit threshold and the loss threshold the
\* strategy trades with are the values of the loaded configuration.
StrategyUsesLoadedConfiguration ==
    config # <<>>
        => /\ daily_trade_limit = config[1].daily_trade_limit
           /\ ProfitThreshold = config[1].profit_threshold_for_selling
           /\ AveragingThreshold = config[1].loss_threshold_for_averaging

CountLog(e) == Cardinality({i \in DOMAIN log : log[i] = e})

Occurrences(s, x) == Cardinality({i \in DOMAIN s : s[i] = x})

BoughtSymbols == [i \in DOMAIN buy.new.trades |-> buy.new.trades[i].tradingSymbol]

\* C18: a failed order placement does not block the rest of its phase and is
\* not retried.  In the sell phase every profitable holding gets exactly one
\* placement attempt (one price fetch beyond those of the analysis), and the
\* orders placed are those of the attempts that succeeded.  In the buy phase
\* every candidate that is not held ends in exactly one of: bought, failed,
\* skipped; and a candidate is skipped only once the daily limit is reached.
FailedOrderDoesNotBlock ==
    /\ ~sell.raised
        => /\ CountLog(Event("sell", "cmp"))
                  = Len(sell.holdings) + Len(sell.profitable)
           /\ Cardinality(OrdersOf("SELL")) = CountLog(Event("sell", "order"))
           /\ Cardinality(OrdersOf("SELL")) <= Len(sell.profitable)
    /\ (pc = "done" /\ eligible_stocks # <<>>)
        => /\ \A i \in DOMAIN eligible_stocks :
                 LET s == eligible_stocks[i]
                 IN ~IsPartOfHolding(s, buy.holdings)
                        => Occurrences(BoughtSymbols, s)
                           + Occurrences(buy.new.failed, s)
                           + Occurrences(buy.new.skipped, s) = 1
           /\ buy.new.skipped # <<>>
                  => Len(buy.new.trades) >= daily_trade_limit
           /\ Cardinality({i \in DOMAIN buy.new.events :
                              buy.new.events[i] = Event("buy", "cmp")})
                  = Len(buy.new.trades) + Len(buy.new.failed)

\* A buy phase whose first candidate failed to be ordered and which went on
\* to buy a later candidate.
FailedOrderDoesNotBlockWitness ==
    /\ pc = "done"
    /\ \E i, j \in DOMAIN eligible_stocks :
          /\ i < j
          /\ eligible_stocks[i] \in Range(buy.new.failed)
          /\ eligible_stocks[j] \in Range(BoughtSymbols)

\* The holdings the sell phase looked at whose profit_pct, at the price the
\* analysis saw, exceeds the threshold.
HoldingsAboveThreshold ==
    {i \in DOMAIN sell.holdings :
        LET h == sell.holdings[i]
            cp == sell.seen[h.tradingSymbol]
        IN /\ cp # NoPrice
           /\ h.entry > 0
           /\ (cp[1] - h.entry) * 100 > ProfitThreshold * h.entry}

\* C19: the number initiate_sell returns is the number of sell orders placed
\* in the run, and it is at most the number of holdings whose profit_pct
\* exceeds the threshold.
SoldCountIsOrdersPlaced ==
    pc \in {"sold", "ranked", "done"}
        => /\ stocks_sold = Cardinality(OrdersOf("SELL"))
           /\ stocks_sold <= Cardinality(HoldingsAboveThreshold)

\* A sell phase with two holdings above the threshold, one of which could
\* not be sold.
SoldCountIsOrdersPlacedWitness ==
    /\ pc = "sold"
    /\ Cardinality(HoldingsAboveThreshold) = 2
    /\ stocks_sold = 1

IsSellOrder(o) == o.action = "SELL"

\* The sell orders of the run, in the order they were placed.
SellOrders == SelectSeq(orders, IsSellOrder)

\* The profit_pct of holding h at the price the analysis saw is at least
\* that of holding g (both have a price and a positive entry price).
SeenProfitAtLeast(h, g) ==
    (sell.seen[h.tradingSymbol][1] - h.entry) * g.entry
        >= (sell.seen[g.tradingSymbol][1] - g.entry) * h.entry

\* C20: the sell orders of a run are placed in descending order of
\* profit_pct: the holdings the order loop goes through are in that order,
\* and the orders placed follow the loop's order.
SellsInDescendingProfit ==
    pc \in {"sold", "ranked", "done"}
        => /\ \A i, j \in DOMAIN sell.profitable :
                 i < j => SeenProfitAtLeast(sell.profitable[i].holding,
                                            sell.profitable[j].holding)
           /\ \E f \in [DOMAIN SellOrders -> DOMAIN sell.profitable] :
                 /\ \A i, j \in DOMAIN SellOrders : i < j => f[i] < f[j]
                 /\ \A i \in DOMAIN SellOrders :
                        SellOrders[i].symbol
                            = sell.profitable[f[i]].holding.tradingSymbol

\* Two sell orders, the first for the holding with the strictly higher
\* profit, which comes second in the holdings list.
SellsInDescendingProfitWitness ==
    /\ pc = "sold"
    /\ Len(SellOrders) = 2
    /\ Len(sell.holdings) = 2
    /\ SellOrders[1].symbol = sell.holdings[2].tradingSymbol
    /\ SellOrders[2].symbol = sell.holdings[1].tradingSymbol
    /\ ~SeenProfitAtLeast(sell.holdings[1], sell.holdings[2])

\* The sorted results of the ranking over the same price data with the
\* universe listed in its first order.
ReferenceResults == SortByDeviation(RankResults(wide_symbols, rank.hist))

SameDeviation(a, b) == a.latest_close * b.sum20 = b.latest_close * a.sum20

\* No result beyond the cut has the deviation of the last result within it.
NoTieAtCut ==
    Len(ReferenceResults) > TopN
        => ~SameDeviation(ReferenceResults[TopN], ReferenceResults[TopN + 1])

\* C21, as claimed: the set of symbols the ranking returns is the one it
\* returns for the same price data with the universe in any other order.
RankingIgnoresUniverseOrder ==
    pc \in {"ranked", "done"}
        => Range(eligible_stocks) = Range(TopSymbols(ReferenceResults))

\* C21, amended: in whatever order the universe is listed, the ranking finds
\* the same number of results with the same deviations position by position,
\* and returns the same set of symbols unless a result left out ties with
\* the last one returned.
RankingIgnoresUniverseOrderButTies ==
    pc \in {"ranked", "done"}
        => /\ Len(rank.sorted_results) = Len(ReferenceResults)
           /\ \A i \in DOMAIN rank.sorted_results :
                  SameDeviation(rank.sorted_results[i], ReferenceResults[i])
           /\ Len(eligible_stocks) = Len(TopSymbols(ReferenceResults))
           /\ NoTieAtCut
                  => Range(eligible_stocks) = Range(TopSymbols(ReferenceResults))

\* A ranking of six results without a tie at the cut whose output lists the
\* same five symbols in another order than the reference: the universe was
\* listed in another order.
RankingIgnoresUniverseOrderButTiesWitness ==
    /\ pc = "ranked"
    /\ Len(ReferenceResults) > TopN
    /\ NoTieAtCut
    /\ eligible_stocks # TopSymbols(ReferenceResults)
    /\ Range(eligible_stocks) = Range(TopSymbols(ReferenceResults))

HeldSymbols == {buy.holdings[k].tradingSymbol : k \in DOMAIN buy.holdings}

\* C22: in the averaging branch a holding whose last buy price is 0 is never
\* the one chosen or bought, and it does not end the pass: a holding that
\* has fallen 3% or more is still found.
ZeroLastBuyNeverAveraged ==
    (pc = "done" /\ buy.averaging)
        => /\ buy.averaging_symbol # <<>>
                  => LastBuyPrice(buy.averaging_symbol[1]) # 0
           /\ \A i \in OrdersOf("BUY_AVERAGE") :
                  LastBuyPrice(orders[i].symbol) # 0
           /\ Fallen # {} => buy.averaging_symbol # <<>>

\* An averaging pass over a priced holding bought at 0 and another holding,
\* which it chose.
ZeroLastBuyNeverAveragedWitness ==
    /\ pc = "done"
    /\ buy.averaging
    /\ \E s \in HeldSymbols : LastBuyPrice(s) = 0 /\ PriceAtBuy(s) # NoPrice
    /\ buy.averaging_symbol # <<>>
    /\ OrdersOf("BUY_AVERAGE") # {}

\* The symbols the ranking met with 20 closes or more whose last 20 closes
\* average 0.
ZeroAverage ==
    {s \in DOMAIN rank.hist :
        /\ rank.hist[s] # <<>>
        /\ Len(Closes(rank.hist[s])) >= 20
        /\ Last20(Closes(rank.hist[s])) = 0}

\* C23: a symbol whose 20-day moving average is 0 is not in the output of
\* the ranking and does not end the ranking of the others: the output still
\* holds min(5, number of qualifying symbols) qualifying symbols.
ZeroAverageExcluded ==
    pc \in {"ranked", "done"}
        => /\ Range(eligible_stocks) \cap ZeroAverage = {}
           /\ Range(eligible_stocks) \subseteq Qualifying
           /\ Len(eligible_stocks) = Min(TopN, Cardinality(Qualifying))

\* A ranking that met a symbol with average 0 first and returned symbols
\* that come after it in the universe.
ZeroAverageExcludedWitness ==
    /\ pc = "ranked"
    /\ wide_symbols[1] \in ZeroAverage
    /\ eligible_stocks # <<>>

\* The mock trades recorded by earlier runs: every buy of this run is in
\* self.mock_trades and in the run's orders.
TradesOfEarlierRuns ==
    Len(mock_trades) - Cardinality(OrdersOf("BUY_NEW"))
                     - Cardinality(OrdersOf("BUY_AVERAGE"))

\* The new-position buys of this run, and one more when an account without
\* broker holdings has trades of earlier runs: the first of them can only
\* have been a new position.
NewBuysOfTheDay ==
    Cardinality(OrdersOf("BUY_NEW"))
    + (IF broker = <<>> /\ TradesOfEarlierRuns > 0 THEN 1 ELSE 0)

\* C24: over the runs of one day the new-position buys never number more
\* than daily_trade_limit.
DailyLimitAcrossRuns == NewBuysOfTheDay <= daily_trade_limit

\* C25: after a successful login, main without --config-only reaches
\* execute_strategy and returns 0; with --config-only it returns 0 without
\* executing the strategy.
MainRunsStrategy ==
    (main # <<>> /\ main[1].login = "session")
        => /\ main[1].exit_code = 0
           /\ main[1].executed = ~main[1].config_only

\* C30: over any sequence of login and get_authenticated_session calls the
\* client holds an enctoken exactly when its session carries the
\* Authorization header (for the same token); a call that does not return
\* the session leaves both as they were; and get_authenticated_session on
\* an authenticated client returns the session without sending a request.
ClientSessionConsistent ==
    /\ [](client.enctoken = client.authorization)
    /\ [][client'.returned # "session"
            => /\ client'.enctoken = client.enctoken
               /\ client'.authorization = client.authorization]_vars
    /\ [][(client.enctoken # <<>>
            /\ client'.call = "get_authenticated_session")
            => /\ client'.returned = "session"
               /\ client'.posts = client.posts
               /\ client'.enctoken = client.enctoken]_vars

\* An authenticated client whose last call, a login, failed and left the
\* token in place.
ClientSessionConsistentWitness ==
    /\ client.enctoken # <<>>
    /\ client.call = "login"
    /\ client.returned # "session"

\* C26: every sell order is placed at a price whose profit over the entry
\* price of a holding of its symbol is strictly above the threshold.
SellOrderPriceAboveThreshold ==
    \A i \in OrdersOf("SELL") :
        \E k \in DOMAIN sell.holdings :
            LET h == sell.holdings[k]
            IN /\ h.tradingSymbol = orders[i].symbol
               /\ h.entry > 0
               /\ (orders[i].price - h.entry) * 100 > ProfitThreshold * h.entry

\* C27: a new-position buy is never placed for a symbol the account holds
\* at the broker, whether or not the holdings fetch of the buy phase failed.
NoNewBuyOfBrokerHolding ==
    \A i \in OrdersOf("BUY_NEW") :
        ~IsPartOfHolding(orders[i].symbol, BrokerSnapshot)

\* Every price fetch the orders of the run rest on saw the symbol's quote:
\* no placement failed for a price that was gone, and every order carries
\* the quote of its symbol.
StablePrices ==
    /\ Cardinality(OrdersOf("SELL")) = Len(sell.profitable)
    /\ buy.new.failed = <<>>
    /\ \A i \in DOMAIN orders : quote[orders[i].symbol] = <<orders[i].price>>

\* C28: when each symbol's price is the same at every fetch of a run, no
\* symbol gets both a sell order and a buy order in that run.
NoSellAndBuyOfOneSymbol ==
    StablePrices
        => \A i \in OrdersOf("SELL") :
               \A j \in DOMAIN orders :
                   orders[j].action # "SELL"
                       => orders[j].symbol # orders[i].symbol

\* C29: a sell phase whose holdings fetch raised and that works with the
\* recorded mock trades returns its count: it does not raise, whatever the
\* buys of earlier runs recorded.
FallbackSellCompletes ==
    (pc \in {"sold", "raised"} /\ sell.holdings = mock_trades)
        => /\ pc = "sold"
           /\ stocks_sold \in 0..Len(sell.holdings)

====
